---- MODULE Spec2Model ----
(***************************************************************************)
(* Day 14 of tkareine/advent-of-code-2021: the LZ77 codec (lz77.rs), the   *)
(* decoding chunk planner, the insertion pass and Polymer::step1 /         *)
(* Polymer::count_elements (main.rs).                                      *)
(*                                                                         *)
(* Bytes are the naturals 0..255.  A Vec<u8> or a slice is a sequence; the *)
(* code's indices are kept 0-based (At, Slice translate them).  Arithmetic *)
(* on u8 keeps its width (ToU8).  A call that panics is a result record   *)
(* with ok = FALSE.                                                        *)
(***************************************************************************)
EXTENDS Naturals, Integers, Sequences, FiniteSets, TLC

VARIABLES
    pc,                           \* position of the operation in progress
    input, output_buf,            \* lz77::encode: its arguments
    window_idx, input_idx,        \* lz77::encode: its locals
    decode_idx, output,           \* lz77::decode: input_idx and output (its input is output_buf)
    encoded_buf,                  \* get_safe_decoding_chunk_len: its slice argument
    decoding_chunk_max_len,       \* the chunk cap handed to get_safe_decoding_chunk_len
    decoding_chunk_len,           \* the length it returned
    template_encoded,             \* Polymer.template_encoded
    insertion_rules,              \* Polymer.insertion_rules
    new_template,                 \* step1: the generation being built
    previous_chunk_last_element,  \* step1: the carry
    template_encoded_idx,         \* step1 / count_elements: bytes consumed
    decoded_buf, grow_buf,        \* step1: the chunk's buffers
    counts_by_element,            \* count_elements: the tally
    polymer_stats,                \* main: the PolymerStats in scope
    steps,                        \* main: step1 calls completed
    template, split               \* grow_polymer_template: the symbols, cut in two chunks

codecVars == <<input, output_buf, window_idx, input_idx, decode_idx, output>>
plannerVars == <<encoded_buf, decoding_chunk_len>>
polymerVars ==
    <<template_encoded, new_template, template_encoded_idx, counts_by_element, polymer_stats, steps>>
growVars == <<insertion_rules, previous_chunk_last_element, decoded_buf, grow_buf, template, split>>
vars == <<pc, codecVars, plannerVars, decoding_chunk_max_len, polymerVars, growVars>>

(***************************************************************************)
(* Format constants                                                        *)
(***************************************************************************)
MATCH_ENCODING_MARKER == 0
MATCH_ENCODING_LEN == 3
MATCH_MIN_SIZE == 4
MATCH_MAX_SIZE == 256
U8_RANGE == 256

ToU8(n) == n % U8_RANGE

\* The absent value of an Option<u8>.
None == -1

\* The absent value of an Option<PolymerStats> (main.rs line 144).
NoStats ==
    [some |-> FALSE, most_common_element |-> 0, most_common_count |-> 0,
     least_common_element |-> 0, least_common_count |-> 0]

At(s, i) == s[i + 1]
Slice(s, from, to) == SubSeq(s, from + 1, to)
Min2(a, b) == IF a < b THEN a ELSE b

(***************************************************************************)
(* Loops.  Iterate(F, st, n) is st after n runs of the loop body F; a body *)
(* leaves the state alone once its loop has ended (a break, a false guard, *)
(* a panic), so n is any upper bound of the number of iterations.  The     *)
(* runs are split in halves to keep the evaluation shallow, and the first  *)
(* half is evaluated before the second starts.                             *)
(***************************************************************************)
RECURSIVE Iterate(_, _, _)
Iterate(F(_), st, n) ==
    IF n <= 0 THEN st
    ELSE IF n = 1 THEN F(st)
    ELSE LET mid == Iterate(F, st, n \div 2)
         IN IF mid = mid THEN Iterate(F, mid, n - (n \div 2)) ELSE mid

(***************************************************************************)
(* lz77.rs: find_match                                                     *)
(***************************************************************************)
NoMatch == [found |-> FALSE, offset |-> 0, len |-> 0]

\* line 105: pattern == &input[match_idx..(match_idx + match_len)]
PatternAt(in, input_idx_, match_idx) ==
    \A k \in 0..(MATCH_MIN_SIZE - 1) : At(in, input_idx_ + k) = At(in, match_idx + k)

\* lines 129-133: one run of the inner for loop
ExtendBody(in, input_idx_, match_idx, st) ==
    IF st.stop THEN st
    ELSE IF At(in, input_idx_ + st.match_len) = At(in, match_idx + st.match_len)
         THEN [match_len |-> st.match_len + 1, stop |-> FALSE]
         ELSE [match_len |-> st.match_len, stop |-> TRUE]

\* lines 113-116: the number of runs of the inner for loop
ExtendBound(in, input_idx_) ==
    Min2(Len(in) - MATCH_MIN_SIZE - input_idx_, MATCH_MAX_SIZE - MATCH_MIN_SIZE)

\* lines 104, 112-134: match_len when the inner loop ends
ExtendMatch(in, input_idx_, match_idx) ==
    Iterate(LAMBDA st : ExtendBody(in, input_idx_, match_idx, st),
            [match_len |-> MATCH_MIN_SIZE, stop |-> FALSE],
            ExtendBound(in, input_idx_)).match_len

\* line 136
MatchOffsetByte(input_idx_, match_idx) == ToU8(input_idx_ - match_idx)

\* line 137
MatchLenByte(match_len) == ToU8(match_len)

\* lines 135-138
MatchFound(in, input_idx_, match_idx) ==
    [found |-> TRUE,
     offset |-> MatchOffsetByte(input_idx_, match_idx),
     len |-> MatchLenByte(ExtendMatch(in, input_idx_, match_idx))]

\* lines 103-140: one run of the outer for loop
FindBody(in, input_idx_, st) ==
    IF st.m.found THEN st
    ELSE IF PatternAt(in, input_idx_, st.match_idx)
         THEN [match_idx |-> st.match_idx, m |-> MatchFound(in, input_idx_, st.match_idx)]
         ELSE [match_idx |-> st.match_idx + 1, m |-> NoMatch]

\* lines 100-143
find_match(in, window_idx_, input_idx_) ==
    Iterate(LAMBDA st : FindBody(in, input_idx_, st),
            [match_idx |-> window_idx_, m |-> NoMatch],
            input_idx_ - window_idx_).m

(***************************************************************************)
(* lz77.rs: encode.  The state of its loop is [out, window_idx, input_idx].*)
(***************************************************************************)
\* line 9
EncodeIsShort(in) == Len(in) < MATCH_MIN_SIZE * 2

\* line 19
EncodeLoopGuard(in, input_idx_) == input_idx_ + MATCH_MIN_SIZE - 1 < Len(in)

\* lines 14-17
EncodeEnter(in, out) ==
    [out |-> out \o Slice(in, 0, MATCH_MIN_SIZE), window_idx |-> 0, input_idx |-> MATCH_MIN_SIZE]

\* a Match arm that leaves the window where it was
EncodeOnMatchKeepsWindow(st, m) ==
    [out |-> st.out \o <<MATCH_ENCODING_MARKER, m.offset, m.len>>,
     window_idx |-> st.window_idx,
     input_idx |-> st.input_idx + m.len]

\* lines 28-33
EncodeOnMatch(st, m) ==
    [out |-> st.out \o <<MATCH_ENCODING_MARKER, m.offset, m.len>>,
     window_idx |-> st.input_idx + m.len,
     input_idx |-> st.input_idx + m.len]

\* lines 38-40
SlideWindow(window_idx_, input_idx_) ==
    IF input_idx_ - window_idx_ > MATCH_MAX_SIZE THEN window_idx_ + 1 ELSE window_idx_

\* lines 34-41
EncodeOnLiteral(in, st) ==
    [out |-> Append(st.out, At(in, st.input_idx)),
     window_idx |-> SlideWindow(st.window_idx, st.input_idx + 1),
     input_idx |-> st.input_idx + 1]

\* lines 45-47
EncodeTail(in, st) ==
    IF st.input_idx < Len(in) THEN st.out \o Slice(in, st.input_idx, Len(in)) ELSE st.out

\* lines 19, 27-42: one run of the while loop
EncodeBody(in, st) ==
    IF ~EncodeLoopGuard(in, st.input_idx) THEN st
    ELSE LET m == find_match(in, st.window_idx, st.input_idx)
         IN IF m.found THEN EncodeOnMatch(st, m) ELSE EncodeOnLiteral(in, st)

\* lines 19-47.  A run either advances input_idx or (a Match whose len byte
\* is 0) empties the window, and the run after an empty window pushes a
\* literal: 2 * Len(in) runs end the loop.
EncodeLoop(in, st0) ==
    EncodeTail(in, Iterate(LAMBDA x : EncodeBody(in, x), st0, 2 * Len(in)))

\* encode(input, output_buf), lines 8-48: output_buf when the call returns
encode(in, out) ==
    IF EncodeIsShort(in) THEN out \o in
    ELSE EncodeLoop(in, EncodeEnter(in, out))

(***************************************************************************)
(* lz77.rs: decode.  The state of its loop is [idx, out, ok]; ok = FALSE   *)
(* after a panic (a slice or index out of range, idx - offset below 0).    *)
(***************************************************************************)
\* Match::decode (lines 93-97): the first two bytes of the slice it is given
MatchDecode(slice) == [offset |-> At(slice, 0), len |-> At(slice, 1)]

\* a vec_extend_self that repeats v[idx] instead of walking on from it
ExtendSelfBodyFixedSource(idx, st) ==
    IF ~st.ok THEN st
    ELSE IF idx + st.i >= Len(st.v) THEN [v |-> st.v, i |-> st.i, ok |-> FALSE]
    ELSE [v |-> Append(st.v, At(st.v, idx)), i |-> st.i + 1, ok |-> TRUE]

\* lines 146-148: one run of the for loop; v[idx + i] must exist when it is read
ExtendSelfBody(idx, st) ==
    IF ~st.ok THEN st
    ELSE IF idx + st.i >= Len(st.v) THEN [v |-> st.v, i |-> st.i, ok |-> FALSE]
    ELSE [v |-> Append(st.v, At(st.v, idx + st.i)), i |-> st.i + 1, ok |-> TRUE]

\* lines 145-149
vec_extend_self(v, idx, len) ==
    Iterate(LAMBDA st : ExtendSelfBody(idx, st), [v |-> v, i |-> 0, ok |-> TRUE], len)

\* a Match branch that recovers: a marker cut short is skipped, and a source
\* that would start before the input starts at its first byte
DecodeOnMatchLenient(in, st) ==
    IF st.idx + 2 >= Len(in) THEN [idx |-> Len(in), out |-> st.out, ok |-> TRUE]
    ELSE LET m == MatchDecode(Slice(in, st.idx + 1, st.idx + 3))
             match_start_idx == IF m.offset > st.idx THEN 0 ELSE st.idx - m.offset
             match_end_idx == Min2(match_start_idx + m.len, st.idx)
         IN [idx |-> st.idx + MATCH_ENCODING_LEN,
             out |-> st.out \o Slice(in, match_start_idx, match_end_idx),
             ok |-> TRUE]

\* lines 64-74
DecodeOnMatch(in, st) ==
    IF st.idx + 2 >= Len(in) THEN [idx |-> st.idx, out |-> st.out, ok |-> FALSE]
    ELSE LET m == MatchDecode(Slice(in, st.idx + 1, st.idx + 3)) IN
         IF m.offset > st.idx THEN [idx |-> st.idx, out |-> st.out, ok |-> FALSE]
         ELSE LET match_start_idx == st.idx - m.offset
                  match_end_idx == match_start_idx + m.len
              IN IF match_end_idx >= st.idx
                 THEN LET output_extend_idx == Len(st.out)
                          r == vec_extend_self(st.out \o Slice(in, match_start_idx, st.idx),
                                               output_extend_idx, match_end_idx - st.idx)
                      IN [idx |-> IF r.ok THEN st.idx + MATCH_ENCODING_LEN ELSE st.idx,
                          out |-> r.v, ok |-> r.ok]
                 ELSE [idx |-> st.idx + MATCH_ENCODING_LEN,
                       out |-> st.out \o Slice(in, match_start_idx, match_end_idx),
                       ok |-> TRUE]

\* lines 75-78
DecodeOnLiteral(in, st) ==
    [idx |-> st.idx + 1, out |-> Append(st.out, At(in, st.idx)), ok |-> TRUE]

\* lines 60-78: one run of the while loop
DecodeBody(in, st) ==
    IF ~st.ok \/ st.idx >= Len(in) THEN st
    ELSE IF At(in, st.idx) = MATCH_ENCODING_MARKER THEN DecodeOnMatch(in, st)
    ELSE DecodeOnLiteral(in, st)

\* decode(input, output), lines 50-80: ok = FALSE when the call panics
decode(in, out) ==
    LET st == Iterate(LAMBDA x : DecodeBody(in, x), [idx |-> 0, out |-> out, ok |-> TRUE], Len(in))
    IN [ok |-> st.ok, out |-> st.out]

(***************************************************************************)
(* main.rs: get_safe_decoding_chunk_len                                    *)
(***************************************************************************)
\* line 245: decoding_chunk_max_len.saturating_sub(lz77::MATCH_MAX_SIZE)
LastWindowIdx(max_len) == IF max_len > MATCH_MAX_SIZE THEN max_len - MATCH_MAX_SIZE ELSE 0

\* lines 247-250
MaxLastWindowLen(max_len) == Min2(max_len - LastWindowIdx(max_len), MATCH_MAX_SIZE)

\* line 252
LastWindowSlice(buf, max_len) ==
    Slice(buf, LastWindowIdx(max_len), LastWindowIdx(max_len) + MaxLastWindowLen(max_len))

\* one step of .iter().position(|c| *c == MARKER)
PositionBody(s, st) ==
    IF st.found THEN st
    ELSE IF At(s, st.k) = MATCH_ENCODING_MARKER THEN [k |-> st.k, found |-> TRUE]
    ELSE [k |-> st.k + 1, found |-> FALSE]

\* lines 256-259: the search leaves out the last two bytes of the window; None when absent
MarkerPosition(w) ==
    LET st == Iterate(LAMBDA x : PositionBody(w, x), [k |-> 0, found |-> FALSE],
                      Len(w) - MATCH_ENCODING_LEN + 1)
    IN IF st.found THEN st.k ELSE None

\* a planner that cuts one byte after the token it found
AdjustedForMarkerPastToken(w, pos, max_last_window_len) ==
    LET m == MatchDecode(Slice(w, pos, pos + MATCH_ENCODING_LEN)) IN
    IF pos >= m.offset
    THEN LET match_start_pos == pos - m.offset
             match_end_pos == match_start_pos + m.len
         IN IF match_end_pos <= max_last_window_len
            THEN pos + MATCH_ENCODING_LEN + 1
            ELSE match_start_pos
    ELSE pos + MATCH_ENCODING_LEN + 1

\* lines 261-276, for the marker found at pos.  Line 263 hands Match::decode
\* the slice that starts at the marker: it reads the marker as the offset and
\* the token's offset byte as the length.
AdjustedForMarker(w, pos, max_last_window_len) ==
    LET m == MatchDecode(Slice(w, pos, pos + MATCH_ENCODING_LEN)) IN
    IF pos >= m.offset
    THEN LET match_start_pos == pos - m.offset
             match_end_pos == match_start_pos + m.len
         IN IF match_end_pos <= max_last_window_len
            THEN pos + MATCH_ENCODING_LEN
            ELSE match_start_pos
    ELSE pos + MATCH_ENCODING_LEN

\* a planner that takes the whole window when it finds no marker
AdjustedLastWindowLenWholeWindow(w, max_last_window_len) ==
    LET pos == MarkerPosition(w) IN
    IF pos = None THEN max_last_window_len ELSE AdjustedForMarker(w, pos, max_last_window_len)

\* lines 256-278
AdjustedLastWindowLen(w, max_last_window_len) ==
    LET pos == MarkerPosition(w) IN
    IF pos = None THEN 0 ELSE AdjustedForMarker(w, pos, max_last_window_len)

\* a planner that searches the window of a buffer exactly max_len long
GetSafeDecodingChunkLenBelowCap(buf, max_len) ==
    IF Len(buf) < max_len THEN Len(buf)
    ELSE LastWindowIdx(max_len)
         + AdjustedLastWindowLen(LastWindowSlice(buf, max_len), MaxLastWindowLen(max_len))

\* lines 240-281; max_len >= MATCH_ENCODING_LEN - 1 (a smaller cap underflows line 257)
get_safe_decoding_chunk_len(buf, max_len) ==
    IF Len(buf) <= max_len THEN Len(buf)
    ELSE LastWindowIdx(max_len)
         + AdjustedLastWindowLen(LastWindowSlice(buf, max_len), MaxLastWindowLen(max_len))

(***************************************************************************)
(* main.rs: grow_polymer_template                                          *)
(***************************************************************************)
\* an insertion pass that pushes the symbol before the element inserted in front of it
GrowPushSymbolFirst(rules, last_element, curr_element) ==
    IF last_element # None /\ <<last_element, curr_element>> \in DOMAIN rules
    THEN <<curr_element, rules[<<last_element, curr_element>>]>>
    ELSE <<curr_element>>

\* an insertion pass that looks no pair up
GrowPushWithoutInsertion(rules, last_element, curr_element) == <<curr_element>>

\* an insertion pass that pushes the marker value between a pair without a rule
GrowPushZeroWithoutRule(rules, last_element, curr_element) ==
    IF last_element # None /\ <<last_element, curr_element>> \in DOMAIN rules
    THEN <<rules[<<last_element, curr_element>>], curr_element>>
    ELSE IF last_element # None THEN <<MATCH_ENCODING_MARKER, curr_element>>
    ELSE <<curr_element>>

\* lines 295-311: what one template symbol pushes
GrowPush(rules, last_element, curr_element) ==
    IF last_element # None /\ <<last_element, curr_element>> \in DOMAIN rules
    THEN <<rules[<<last_element, curr_element>>], curr_element>>
    ELSE <<curr_element>>

\* lines 292-315: one run of the while loop
GrowBody(rules, tmpl, st) ==
    IF st.template_idx >= Len(tmpl) THEN st
    ELSE LET curr_element == At(tmpl, st.template_idx)
         IN [template_idx |-> st.template_idx + 1,
             last_element |-> curr_element,
             out |-> st.out \o GrowPush(rules, st.last_element, curr_element)]

\* lines 283-316
grow_polymer_template(rules, tmpl, previous_chunk_last_element_, out) ==
    Iterate(LAMBDA st : GrowBody(rules, tmpl, st),
            [template_idx |-> 0, last_element |-> previous_chunk_last_element_, out |-> out],
            Len(tmpl)).out

\* a step1 that carries nothing over to the next chunk
LastElementDropped(buf) == None

\* line 232: decoded_buf.last().copied()
LastElement(buf) == IF Len(buf) = 0 THEN None ELSE buf[Len(buf)]

(***************************************************************************)
(* Inputs                                                                  *)
(***************************************************************************)
MaxInputLen == 9

\* "A" and "B"
SmallAlphabet == {65, 66}

SeqsUpTo(S, n) == UNION {[1..k -> S] : k \in 0..n}

\* the inputs of the tests of lz77.rs (lines 169-183) not already in SeqsUpTo
TestVectors ==
    { <<67, 67, 78, 66, 66, 78, 65, 78, 66, 66, 78>>,                      \* CCNBBNANBBN
      <<67, 67, 78, 66, 66, 78, 65, 78, 66, 66, 78, 66>>,                  \* CCNBBNANBBNB
      <<67, 67, 78, 66, 66, 78, 65, 65, 78, 66, 66, 78, 65>>,              \* CCNBBNAANBBNA
      <<67, 67, 78, 66, 66, 78, 65, 65, 78, 66, 66, 78, 65, 66>>,          \* CCNBBNAANBBNAB
      <<65, 66, 66, 65, 90, 79, 79, 77, 65, 66, 66, 65, 90, 79, 79, 77>>,  \* ABBAZOOMABBAZOOM
      <<65, 66, 66, 65, 90, 79, 79, 77, 90, 79, 79, 77, 65, 66, 66, 65>>,  \* ABBAZOOMZOOMABBA
      <<65, 78, 65, 78, 65, 78, 65, 78, 65, 78, 65>>,                      \* ANANANANANA
      <<65, 66, 66, 65, 78, 65, 66, 66, 65, 90, 79, 79, 77, 90, 79, 79, 77>> } \* ABBANABBAZOOMZOOM

\* n times "A"
Run(n) == [i \in 1..n |-> 65]

\* n symbols in which no four consecutive symbols occur twice
Spread(n) == [i \in 1..n |-> 2 + ((i - 1) % (U8_RANGE - 2))]

\* a sequence whose first four symbols occur again d positions later, and nowhere between
Far(d) == Spread(d) \o SubSeq(Spread(d), 1, MATCH_MIN_SIZE)

\* inputs at the limits of the format: a run of MATCH_MAX_SIZE - 1 and of
\* MATCH_MAX_SIZE symbols after the first four, a repeat MATCH_MAX_SIZE - 1,
\* MATCH_MAX_SIZE and MATCH_MAX_SIZE + 1 positions back
LimitInputs ==
    {Run(MATCH_MIN_SIZE + n) : n \in {MATCH_MAX_SIZE - 1, MATCH_MAX_SIZE}}
    \cup {Far(d) : d \in {MATCH_MAX_SIZE - 1, MATCH_MAX_SIZE, MATCH_MAX_SIZE + 1}}

\* d symbols in which no four consecutive symbols occur twice, and the same again
Echo(d) == Spread(d) \o Spread(d)

\* AAAAABAAAAB: the four symbols at index 6 occur at index 0 (followed by A)
\* and at index 1 (followed by B, as they are at index 6)
LaterIsLonger == <<65, 65, 65, 65, 65, 66, 65, 65, 65, 65, 66>>

CodecInputs ==
    SeqsUpTo(SmallAlphabet, MaxInputLen) \cup TestVectors \cup LimitInputs \cup {LaterIsLonger, Echo(MATCH_MAX_SIZE)}

(***************************************************************************)
(* The codec: encode(input, output_buf), then decode(output_buf, output),  *)
(* one loop iteration per step.                                            *)
(***************************************************************************)
CodecIdle ==
    /\ input = <<>> /\ output_buf = <<>> /\ window_idx = 0 /\ input_idx = 0
    /\ decode_idx = 0 /\ output = <<>>

PlannerIdle == encoded_buf = <<>> /\ decoding_chunk_len = 0

PolymerIdle ==
    /\ template_encoded = <<>> /\ new_template = <<>> /\ template_encoded_idx = 0
    /\ counts_by_element = <<>> /\ polymer_stats = NoStats /\ steps = 0

GrowIdle ==
    /\ insertion_rules = <<>> /\ previous_chunk_last_element = None
    /\ decoded_buf = <<>> /\ grow_buf = <<>> /\ template = <<>> /\ split = 0

InitCodec ==
    /\ pc = "encode"
    /\ input \in CodecInputs
    /\ output_buf = <<>> /\ window_idx = 0 /\ input_idx = 0
    /\ decode_idx = 0 /\ output = <<>>
    /\ decoding_chunk_max_len = 0
    /\ PlannerIdle /\ PolymerIdle /\ GrowIdle

EncodeState == [out |-> output_buf, window_idx |-> window_idx, input_idx |-> input_idx]

SetEncodeState(st) ==
    /\ output_buf' = st.out
    /\ window_idx' = st.window_idx
    /\ input_idx' = st.input_idx

codecRest == <<plannerVars, decoding_chunk_max_len, polymerVars, growVars>>

\* a short-input branch that returns without appending the input
EncodeShortDropsInput ==
    /\ pc = "encode" /\ EncodeIsShort(input)
    /\ output_buf' = output_buf
    /\ pc' = "encoded"
    /\ UNCHANGED <<input, window_idx, input_idx, decode_idx, output, codecRest>>

\* lz77.rs lines 9-12
EncodeShort ==
    /\ pc = "encode" /\ EncodeIsShort(input)
    /\ output_buf' = output_buf \o input
    /\ pc' = "encoded"
    /\ UNCHANGED <<input, window_idx, input_idx, decode_idx, output, codecRest>>

\* lz77.rs lines 14-17
EncodeBegin ==
    /\ pc = "encode" /\ ~EncodeIsShort(input)
    /\ SetEncodeState(EncodeEnter(input, output_buf))
    /\ pc' = "encode_loop"
    /\ UNCHANGED <<input, decode_idx, output, codecRest>>

\* lz77.rs lines 19, 27-33
EncodeMatch ==
    /\ pc = "encode_loop" /\ EncodeLoopGuard(input, input_idx)
    /\ LET m == find_match(input, window_idx, input_idx)
       IN m.found /\ SetEncodeState(EncodeOnMatch(EncodeState, m))
    /\ UNCHANGED <<pc, input, decode_idx, output, codecRest>>

\* lz77.rs lines 19, 27, 34-41
EncodeLiteral ==
    /\ pc = "encode_loop" /\ EncodeLoopGuard(input, input_idx)
    /\ ~find_match(input, window_idx, input_idx).found
    /\ SetEncodeState(EncodeOnLiteral(input, EncodeState))
    /\ UNCHANGED <<pc, input, decode_idx, output, codecRest>>

\* lz77.rs lines 19, 45-48
EncodeFlush ==
    /\ pc = "encode_loop" /\ ~EncodeLoopGuard(input, input_idx)
    /\ output_buf' = EncodeTail(input, EncodeState)
    /\ pc' = "encoded"
    /\ UNCHANGED <<input, window_idx, input_idx, decode_idx, output, codecRest>>

Decoding == pc \in {"decode_loop", "decode_after_match", "decode_after_literal"}

DecodeState == [idx |-> decode_idx, out |-> output, ok |-> TRUE]

\* lz77.rs line 51: decode(&encoded, &mut decoded) as in encode_test (lines 162-163)
DecodeBegin ==
    /\ pc = "encoded"
    /\ decode_idx' = 0 /\ output' = <<>>
    /\ pc' = "decode_loop"
    /\ UNCHANGED <<input, output_buf, window_idx, input_idx, codecRest>>

\* lz77.rs lines 60-74
DecodeMatch ==
    /\ Decoding /\ decode_idx < Len(output_buf)
    /\ At(output_buf, decode_idx) = MATCH_ENCODING_MARKER
    /\ LET r == DecodeOnMatch(output_buf, DecodeState)
       IN /\ decode_idx' = r.idx
          /\ output' = r.out
          /\ pc' = IF r.ok THEN "decode_after_match" ELSE "decode_panic"
    /\ UNCHANGED <<input, output_buf, window_idx, input_idx, codecRest>>

\* lz77.rs lines 60-61, 75-78
DecodeLiteral ==
    /\ Decoding /\ decode_idx < Len(output_buf)
    /\ At(output_buf, decode_idx) # MATCH_ENCODING_MARKER
    /\ LET r == DecodeOnLiteral(output_buf, DecodeState)
       IN decode_idx' = r.idx /\ output' = r.out
    /\ pc' = "decode_after_literal"
    /\ UNCHANGED <<input, output_buf, window_idx, input_idx, codecRest>>

\* lz77.rs lines 60, 80
DecodeReturn ==
    /\ Decoding /\ decode_idx >= Len(output_buf)
    /\ pc' = "decoded"
    /\ UNCHANGED <<codecVars, codecRest>>

NextCodec ==
    \/ EncodeShort \/ EncodeBegin \/ EncodeMatch \/ EncodeLiteral \/ EncodeFlush
    \/ DecodeBegin \/ DecodeMatch \/ DecodeLiteral \/ DecodeReturn

SpecCodec == InitCodec /\ [][NextCodec]_vars

(***************************************************************************)
(* Round trip and decode's Match branch                                    *)
(***************************************************************************)
\* C1: for every input s of non-zero bytes, decode(encode(s)) returns
\* normally and equals s: decode never panics on encode's output, and the
\* output it returns is the input.
C1_RoundTrip ==
    /\ pc # "decode_panic"
    /\ pc = "decoded" => output = input

\* the Match token decode has just consumed
ConsumedMatch == MatchDecode(Slice(output_buf, decode_idx - 2, decode_idx))

\* the Match token decode is about to consume
NextMatch == MatchDecode(Slice(output_buf, decode_idx + 1, decode_idx + 3))

AtCompleteMatch ==
    /\ Decoding /\ decode_idx + 2 < Len(output_buf)
    /\ At(output_buf, decode_idx) = MATCH_ENCODING_MARKER

AtFindMatch == pc = "encode_loop" /\ EncodeLoopGuard(input, input_idx)

\* the window positions at which the four symbols at input_idx occur
WindowOccurrences == {k \in window_idx..(input_idx - 1) : PatternAt(input, input_idx, k)}

\* the smallest of them
LeftmostOccurrence == CHOOSE k \in WindowOccurrences : \A j \in WindowOccurrences : k <= j

\* C14: at every call of find_match inside encode, input_idx - window_idx
\* is at most 255, and the Match it returns (if any) stores an offset byte
\* in 1..255 that equals the true distance input_idx - match_idx.
C14_WindowBound ==
    AtFindMatch
    => /\ input_idx - window_idx <= U8_RANGE - 1
       /\ LET m == find_match(input, window_idx, input_idx)
          IN m.found => /\ m.offset \in 1..(U8_RANGE - 1)
                        /\ m.offset = input_idx - LeftmostOccurrence

\* C15: every Match token encode emits represents between 4 and 256 copied
\* symbols: encode advances input_idx by that many symbols for it, the token's
\* length byte denotes that number, and decode appends that many symbols for
\* every Match token it consumes.
C15_MatchLength ==
    [][/\ (AtFindMatch /\ find_match(input, window_idx, input_idx).found)
          => LET skipped == input_idx' - input_idx
             IN /\ skipped \in MATCH_MIN_SIZE..MATCH_MAX_SIZE
                /\ At(output_buf', Len(output_buf') - 1) = ToU8(skipped)
       /\ AtCompleteMatch
          => LET appended == Len(output') - Len(output)
             IN /\ appended \in MATCH_MIN_SIZE..MATCH_MAX_SIZE
                /\ NextMatch.len = ToU8(appended)]_vars

\* the symbols from input_idx on that agree with those from k on, at most
\* the remaining input and MATCH_MAX_SIZE
Agreement(k) ==
    LET cap == Min2(Len(input) - input_idx, MATCH_MAX_SIZE)
        Agrees(l) == \A j \in 0..(l - 1) : At(input, k + j) = At(input, input_idx + j)
    IN CHOOSE l \in 0..cap :
           Agrees(l) /\ (l = cap \/ At(input, k + l) # At(input, input_idx + l))

ANANANANANA == <<65, 78, 65, 78, 65, 78, 65, 78, 65, 78, 65>>

\* C17: at each encode position with at least 4 symbols left, a Match is
\* emitted exactly when the 4 symbols at input_idx occur in the window; the
\* emitted Match starts at the smallest such index (its offset is the
\* distance to it) and its length is the longest agreement from that index,
\* capped by the remaining input and MATCH_MAX_SIZE, also when a later window
\* position would give a longer match.  ANANANANANA is encoded as the
\* literals ANAN and Match(offset 4, length 7).
C17_LeftmostGreedy ==
    /\ AtFindMatch
       => LET m == find_match(input, window_idx, input_idx)
          IN /\ m.found <=> WindowOccurrences # {}
             /\ m.found => /\ m.offset = input_idx - LeftmostOccurrence
                           /\ m.len = Agreement(LeftmostOccurrence)
    /\ (pc = "encoded" /\ input = ANANANANANA)
       => output_buf = <<65, 78, 65, 78, MATCH_ENCODING_MARKER, 4, 7>>

\* what output_buf may hold when encode is called
AppendPrefixes == {<<>>, <<66>>, <<65, 65, 65, 65, MATCH_ENCODING_MARKER, 4, 4>>}

HasMarker(buf) == \E i \in 1..Len(buf) : buf[i] = MATCH_ENCODING_MARKER

\* C18: for every input shorter than 2 * MATCH_MIN_SIZE (8 symbols), encode
\* appends the input unchanged to output_buf and emits no Match token, also
\* when the input contains a repeat.
C18_ShortInput ==
    Len(input) < 2 * MATCH_MIN_SIZE
    => /\ pc \notin {"encode", "encode_loop"} => (output_buf = input /\ ~HasMarker(output_buf))
       /\ pc # "encode_loop"
       /\ \A p \in AppendPrefixes : encode(input, p) = p \o input

\* encode has returned for AAAAAAA, in which AAAA occurs four times
C18_Witness ==
    /\ pc = "encoded" /\ Len(input) = 2 * MATCH_MIN_SIZE - 1
    /\ \A i \in 1..Len(input) : input[i] = 65
    /\ output_buf = input

(***************************************************************************)
(* decode alone: decode(output_buf, output) on any byte slice, one loop    *)
(* iteration per step.                                                     *)
(***************************************************************************)
MaxStreamLen == 7

\* the marker, the offsets and lengths 1 and 2, and "A"
StreamBytes == {MATCH_ENCODING_MARKER, 1, 2, 65}

DecodeInputs == SeqsUpTo(StreamBytes, MaxStreamLen)

\* lz77.rs line 51
InitDecode ==
    /\ pc = "decode_loop"
    /\ output_buf \in DecodeInputs
    /\ decode_idx = 0 /\ output = <<>>
    /\ input = <<>> /\ window_idx = 0 /\ input_idx = 0
    /\ decoding_chunk_max_len = 0
    /\ PlannerIdle /\ PolymerIdle /\ GrowIdle

NextDecode == DecodeMatch \/ DecodeLiteral \/ DecodeReturn

SpecDecode == InitDecode /\ [][NextDecode]_vars

\* `len` symbols appended to out, each the symbol `offset` positions before it
CopyFromOutput(out, offset, len) ==
    out \o [j \in 1..len |-> out[Len(out) - offset + 1 + ((j - 1) % offset)]]

\* a token stream read token by token, every Match token copying from the
\* decoded output; ok = FALSE when the bytes are no token stream (a token cut
\* short) or a Match token's offset is 0 or exceeds the symbols decoded before it
FromOutputBody(s, st) ==
    IF ~st.ok \/ st.idx >= Len(s) THEN st
    ELSE IF At(s, st.idx) # MATCH_ENCODING_MARKER
         THEN [idx |-> st.idx + 1, out |-> Append(st.out, At(s, st.idx)), ok |-> TRUE]
    ELSE IF st.idx + 2 >= Len(s) THEN [idx |-> st.idx, out |-> st.out, ok |-> FALSE]
    ELSE LET offset == At(s, st.idx + 1)
             len == At(s, st.idx + 2)
         IN IF offset = 0 \/ offset > Len(st.out)
            THEN [idx |-> st.idx, out |-> st.out, ok |-> FALSE]
            ELSE [idx |-> st.idx + MATCH_ENCODING_LEN,
                  out |-> CopyFromOutput(st.out, offset, len), ok |-> TRUE]

DecodedFromOutput(s) ==
    Iterate(LAMBDA x : FromOutputBody(s, x), [idx |-> 0, out |-> <<>>, ok |-> TRUE], Len(s))

\* C16: for every token stream in which each Match token's offset is at most
\* the number of symbols decoded before it, decode returns, and what it has
\* appended after each token is what copying `length` symbols from `offset`
\* positions before the end of the decoded output gives, whether or not an
\* earlier Match token lies in that range.
C16_SourcePosition ==
    DecodedFromOutput(output_buf).ok
    => /\ pc # "decode_panic"
       /\ output = DecodedFromOutput(Slice(output_buf, 0, decode_idx)).out

(***************************************************************************)
(* The planner alone: get_safe_decoding_chunk_len(encoded_buf, cap)        *)
(***************************************************************************)
MaxBufLen == 8

\* a marker, a byte that reads as an offset and as a length, and "A"
PlannerBytes == {0, 4, 65}

\* chunk caps not above MATCH_MAX_SIZE: MATCH_ENCODING_LEN and the next ones,
\* and the 32 of the tests (main.rs lines 453-454)
SmallCaps == MATCH_ENCODING_LEN..(2 * MATCH_MIN_SIZE) \cup {32}

\* chunk caps above MATCH_MAX_SIZE, where the trailing window starts inside the buffer
LargeCaps == (MATCH_MAX_SIZE + 1)..(MATCH_MAX_SIZE + 6)

\* the buffers of the tests of main.rs (lines 453-454), and 33 literals
PlannerTestBufs ==
    { <<80, 78, 70, 67, 86, 72, 75, 75, 79, 67>>,                  \* PNFCVHKKOC
      <<65, 65, 66, 65, 65, 66, 65, 65, 66, 65, 65, 66, 65, 65, 66, 65, 65, 66,
        65, 65, 66, 65, 65, 66, 65, 65, 66, 83, 79, 0, 2, 4,
        78, 65, 65, 78, 65, 65, 78>>,                              \* AAB x 9, SO, Match(2, 4), NAANAAN
      [i \in 1..33 |-> 65] }

\* encode outputs longer than MATCH_MAX_SIZE: a Match token and then literals
\* only, literals only and then a Match token (far back, near), literals only
LongBufs ==
    { encode(Run(2 * MATCH_MIN_SIZE) \o Spread(MATCH_MAX_SIZE - 1), <<>>),
      encode(Far(MATCH_MAX_SIZE - 1), <<>>),
      encode(Far(MATCH_MAX_SIZE - 2) \o Run(MATCH_MIN_SIZE), <<>>),
      encode(Spread(MATCH_MAX_SIZE - 2 * MATCH_MIN_SIZE) \o Run(2 * MATCH_MIN_SIZE)
             \o Spread(2 * MATCH_MIN_SIZE), <<>>),
      encode(Spread(MATCH_MAX_SIZE + MATCH_MIN_SIZE), <<>>) }

PlannerInputs ==
    ((SeqsUpTo(PlannerBytes, MaxBufLen) \cup PlannerTestBufs) \X SmallCaps)
    \cup (LongBufs \X LargeCaps)

InitPlanner ==
    /\ pc = "plan"
    /\ \E i \in PlannerInputs : encoded_buf = i[1] /\ decoding_chunk_max_len = i[2]
    /\ decoding_chunk_len = 0
    /\ CodecIdle /\ PolymerIdle /\ GrowIdle

\* the call, as made at main.rs lines 115-118 and 180-183
Plan ==
    /\ pc = "plan"
    /\ decoding_chunk_len' = get_safe_decoding_chunk_len(encoded_buf, decoding_chunk_max_len)
    /\ pc' = "planned"
    /\ UNCHANGED <<encoded_buf, decoding_chunk_max_len, codecVars, polymerVars, growVars>>

\* the caller moves on to the remainder (main.rs lines 134 and 233, then 116 and 181)
PlanRemainder ==
    /\ pc = "planned"
    /\ 0 < decoding_chunk_len /\ decoding_chunk_len < Len(encoded_buf)
    /\ encoded_buf' = Slice(encoded_buf, decoding_chunk_len, Len(encoded_buf))
    /\ pc' = "plan"
    /\ UNCHANGED <<decoding_chunk_len, decoding_chunk_max_len, codecVars, polymerVars, growVars>>

NextPlanner == Plan \/ PlanRemainder

SpecPlanner == InitPlanner /\ [][NextPlanner]_vars

(***************************************************************************)
(* The planner's contract                                                  *)
(***************************************************************************)
\* one step of the left-to-right scan that splits a buffer in tokens, as
\* decode makes it (lz77.rs lines 60-78): the Match tokens' start indices
TokenScanBody(buf, st) ==
    IF st.idx >= Len(buf) THEN st
    ELSE IF At(buf, st.idx) = MATCH_ENCODING_MARKER
         THEN [idx |-> st.idx + MATCH_ENCODING_LEN, matches |-> st.matches \cup {st.idx}]
         ELSE [idx |-> st.idx + 1, matches |-> st.matches]

TokenScan(buf) ==
    Iterate(LAMBDA st : TokenScanBody(buf, st), [idx |-> 0, matches |-> {}], Len(buf))

\* every Match token is complete, reaches back to a byte of the buffer and
\* copies at least MATCH_MIN_SIZE symbols
WellFormedTokens(buf) ==
    LET scan == TokenScan(buf) IN
    /\ scan.idx = Len(buf)
    /\ \A t \in scan.matches :
           /\ 1 <= At(buf, t + 1) /\ At(buf, t + 1) <= t
           /\ At(buf, t + 2) >= MATCH_MIN_SIZE

\* boundary b falls between a marker and its offset byte, or between the
\* offset byte and the length byte
SlicesToken(buf, b) ==
    \E t \in TokenScan(buf).matches : t < b /\ b < t + MATCH_ENCODING_LEN

\* C3: for a buffer made of well-formed tokens and any max_len, the boundary
\* returned by get_safe_decoding_chunk_len never falls inside a Match token.
C3_NoTokenSliced ==
    (pc = "planned" /\ WellFormedTokens(encoded_buf))
    => ~SlicesToken(encoded_buf, decoding_chunk_len)

\* C4: get_safe_decoding_chunk_len returns at least 1 for every non-empty
\* buffer and every max_len >= MATCH_ENCODING_LEN.
C4_PlannerProgress ==
    (pc = "planned" /\ Len(encoded_buf) > 0 /\ decoding_chunk_max_len >= MATCH_ENCODING_LEN)
    => decoding_chunk_len >= 1

\* the trailing window: the last min(max_len, MATCH_MAX_SIZE) bytes before max_len
WindowLen == Min2(decoding_chunk_max_len, MATCH_MAX_SIZE)

WindowStart == decoding_chunk_max_len - WindowLen

\* the window positions of the markers whose 3-byte token ends inside the window
WindowMarkers ==
    {pos \in 0..(WindowLen - MATCH_ENCODING_LEN) :
        At(encoded_buf, WindowStart + pos) = MATCH_ENCODING_MARKER}

FirstWindowMarker == CHOOSE pos \in WindowMarkers : \A q \in WindowMarkers : pos <= q

\* the planner searched the window and found a marker
MarkerFound ==
    /\ pc = "planned" /\ Len(encoded_buf) > decoding_chunk_max_len
    /\ WindowMarkers # {}

FoundOffset == At(encoded_buf, WindowStart + FirstWindowMarker + 1)

FoundLen == At(encoded_buf, WindowStart + FirstWindowMarker + 2)

\* the found token's source range starts and ends inside the window
SourceInsideWindow ==
    /\ FirstWindowMarker - FoundOffset >= 0
    /\ FirstWindowMarker - FoundOffset + FoundLen <= WindowLen

\* C10: when the first marker found in the trailing window has its source
\* range inside the window, the planner returns the boundary immediately
\* after the token: window_start + pos + 3.
C10_BoundaryAfterToken ==
    (MarkerFound /\ SourceInsideWindow)
    => decoding_chunk_len = WindowStart + FirstWindowMarker + MATCH_ENCODING_LEN

\* C11: when the first marker found in the trailing window has a token
\* whose source range is not entirely inside the window (its offset exceeds
\* pos, or pos - offset + length exceeds the window's end), the planner
\* returns window_start + pos: the token is left to the next chunk.
C11_BoundaryBeforeToken ==
    (MarkerFound /\ ~SourceInsideWindow)
    => decoding_chunk_len = WindowStart + FirstWindowMarker

\* C12: when the buffer is not longer than max_len, the planner returns
\* the buffer's length, whatever its bytes are.
C12_WholeBufferFits ==
    (pc = "planned" /\ Len(encoded_buf) <= decoding_chunk_max_len)
    => decoding_chunk_len = Len(encoded_buf)

\* a buffer exactly max_len long that ends with a marker, planned
C12_Witness ==
    /\ pc = "planned"
    /\ Len(encoded_buf) = decoding_chunk_max_len
    /\ At(encoded_buf, Len(encoded_buf) - 1) = MATCH_ENCODING_MARKER
    /\ decoding_chunk_len = Len(encoded_buf)

\* C13: when the buffer is longer than max_len and the trailing window has
\* no marker at a position where a 3-byte token still fits, the planner
\* returns the window's start, max_len - min(max_len, MATCH_MAX_SIZE).
C13_NoMarker ==
    (pc = "planned" /\ Len(encoded_buf) > decoding_chunk_max_len /\ WindowMarkers = {})
    => decoding_chunk_len = decoding_chunk_max_len - Min2(decoding_chunk_max_len, MATCH_MAX_SIZE)

\* a window that starts inside the buffer and has no marker, planned
C13_Witness ==
    /\ pc = "planned" /\ Len(encoded_buf) > decoding_chunk_max_len
    /\ WindowMarkers = {}
    /\ WindowStart > 0 /\ decoding_chunk_len = WindowStart

(***************************************************************************)
(* Rule tables.  A PolymerInsertionRules map is a function on pairs; a     *)
(* table is written as the set of its lines <<left, right, inserted>>.     *)
(***************************************************************************)
\* main.rs lines 77-81: polymer_insertion_rules.insert(src, dst), line by line
RuleTable(lines) ==
    [p \in {<<l[1], l[2]>> : l \in lines} |->
        (CHOOSE l \in lines : <<l[1], l[2]>> = p)[3]]

\* the 16 rules of step_polymer (main.rs lines 461-476)
ExampleRules ==
    RuleTable({ <<67, 72, 66>>, <<72, 72, 78>>, <<67, 66, 72>>, <<78, 72, 67>>,
                <<72, 66, 67>>, <<72, 67, 66>>, <<72, 78, 67>>, <<78, 78, 67>>,
                <<66, 72, 72>>, <<78, 67, 66>>, <<78, 66, 66>>, <<66, 78, 66>>,
                <<66, 66, 78>>, <<66, 67, 66>>, <<67, 67, 78>>, <<67, 78, 67>> })

\* NNCB, the template of step_polymer (main.rs line 459)
ExampleTemplate == <<78, 78, 67, 66>>

\* the rules of grow_polymer_template_once (main.rs lines 423-425): AA -> B, AB -> C, BC -> A
GrowOnceRules == RuleTable({ <<65, 65, 66>>, <<65, 66, 67>>, <<66, 67, 65>> })

\* AABC, its template (main.rs line 421), and ABACBAC, its result (line 438)
GrowOnceTemplate == <<65, 65, 66, 67>>

GrowOnceResult == <<65, 66, 65, 67, 66, 65, 67>>

\* tables over "A" and "B": every pair has a rule and runs of one symbol stay
\* runs; every pair has a rule and runs break up; one pair only has a rule
RulesKeepingRuns == RuleTable({ <<65, 65, 65>>, <<65, 66, 66>>, <<66, 65, 65>>, <<66, 66, 66>> })

RulesBreakingRuns == RuleTable({ <<65, 65, 66>>, <<65, 66, 65>>, <<66, 65, 66>>, <<66, 66, 65>> })

RulesForOnePair == RuleTable({ <<65, 65, 66>> })

SmallRuleTables == {RulesKeepingRuns, RulesBreakingRuns, RulesForOnePair}

MaxTemplateLen == 4

(***************************************************************************)
(* The insertion pass over a template cut in two chunks, as step1 makes it *)
(* for consecutive chunks: grow_polymer_template on the first chunk with   *)
(* no carry, then on the second chunk with the carry step1 computes, both  *)
(* appending to the same buffer.                                           *)
(***************************************************************************)
GrowInputs ==
    (SeqsUpTo(SmallAlphabet, MaxTemplateLen) \X SmallRuleTables)
    \cup {<<GrowOnceTemplate, GrowOnceRules>>, <<ExampleTemplate, ExampleRules>>}

InitGrow ==
    /\ pc = "grow_first"
    /\ \E i \in GrowInputs :
           /\ template = i[1] /\ insertion_rules = i[2]
           /\ split \in 0..Len(i[1])
    /\ previous_chunk_last_element = None
    /\ decoded_buf = <<>> /\ grow_buf = <<>>
    /\ decoding_chunk_max_len = 0
    /\ CodecIdle /\ PlannerIdle /\ PolymerIdle

growRest == <<codecVars, plannerVars, decoding_chunk_max_len, polymerVars>>

\* main.rs lines 171, 207-212, 232 for the chunk template[0..split]
GrowFirst ==
    /\ pc = "grow_first"
    /\ decoded_buf' = Slice(template, 0, split)
    /\ grow_buf' = grow_polymer_template(insertion_rules, decoded_buf',
                                         previous_chunk_last_element, grow_buf)
    /\ previous_chunk_last_element' = LastElement(decoded_buf')
    /\ pc' = "grow_second"
    /\ UNCHANGED <<insertion_rules, template, split, growRest>>

\* main.rs lines 207-212, 232 for the chunk template[split..]
GrowSecond ==
    /\ pc = "grow_second"
    /\ decoded_buf' = Slice(template, split, Len(template))
    /\ grow_buf' = grow_polymer_template(insertion_rules, decoded_buf',
                                         previous_chunk_last_element, grow_buf)
    /\ previous_chunk_last_element' = LastElement(decoded_buf')
    /\ pc' = "grown"
    /\ UNCHANGED <<insertion_rules, template, split, growRest>>

NextGrow == GrowFirst \/ GrowSecond

SpecGrow == InitGrow /\ [][NextGrow]_vars

(***************************************************************************)
(* The insertion pass's contract                                           *)
(***************************************************************************)
\* the pair that ends at template position i (1-based) has a rule
HasRule(rules, tmpl, i) == i >= 2 /\ <<tmpl[i - 1], tmpl[i]>> \in DOMAIN rules

\* the output position of template position i: one slot for each symbol up
\* to i and one for each pair up to i that has a rule
OutputPosition(rules, tmpl, i) ==
    i + Cardinality({k \in 2..i : HasRule(rules, tmpl, k)})

\* out is tmpl with, in front of each symbol whose pair with its predecessor
\* has a rule, that rule's value, and nothing else
IsInsertionPass(rules, tmpl, out) ==
    /\ Len(out) = OutputPosition(rules, tmpl, Len(tmpl))
    /\ \A i \in 1..Len(tmpl) :
           /\ out[OutputPosition(rules, tmpl, i)] = tmpl[i]
           /\ HasRule(rules, tmpl, i)
              => out[OutputPosition(rules, tmpl, i) - 1] = rules[<<tmpl[i - 1], tmpl[i]>>]

\* C8: grow_polymer_template(template, None) emits the first symbol alone
\* and, for each later symbol, the rule's value for (predecessor, symbol)
\* when there is one and then the symbol; the template's symbols keep their
\* order and nothing else is emitted.  AABC grows to ABACBAC.
C8_InsertionPass ==
    pc = "grow_second"
    => /\ IsInsertionPass(insertion_rules, decoded_buf, grow_buf)
       /\ (decoded_buf = GrowOnceTemplate /\ insertion_rules = GrowOnceRules)
          => grow_buf = GrowOnceResult

\* a pass over a template with a pair that has a rule and a pair that has none
C8_Witness ==
    /\ pc = "grow_second"
    /\ \E i \in 2..Len(decoded_buf) : HasRule(insertion_rules, decoded_buf, i)
    /\ \E i \in 2..Len(decoded_buf) : ~HasRule(insertion_rules, decoded_buf, i)
    /\ Len(grow_buf) > Len(decoded_buf)

\* C6: for a non-empty chunk a and a chunk b, growing a with no carry and
\* then b with the carry last(a) gives what growing a ++ b with no carry
\* gives, and the carry step1 hands to the next chunk is the last symbol of
\* the chunk it decoded.
C6_SeamCarry ==
    /\ (pc = "grow_second" /\ split >= 1)
       => previous_chunk_last_element = template[split]
    /\ (pc = "grown" /\ split >= 1)
       => grow_buf = grow_polymer_template(insertion_rules, template, None, <<>>)

\* both chunks non-empty and grown, and the pair across the seam has a rule
C6_Witness ==
    /\ pc = "grown"
    /\ 1 <= split /\ split < Len(template)
    /\ HasRule(insertion_rules, template, split + 1)

(***************************************************************************)
(* The polymer: Polymer::read, then step1 and stats (count_elements) in any *)
(* order, one chunk (one run of their while loop) per step.  The chunk cap *)
(* DECODING_CHUNK_MAX_LEN is fixed when the program is built; the variable *)
(* decoding_chunk_max_len holds the build's value.                         *)
(***************************************************************************)
DECODING_CHUNK_MAX_LEN == 8192

MaxSteps == 5

\* a template and rules whose third generation encodes to more than
\* MATCH_MAX_SIZE bytes, the first MATCH_MAX_SIZE of them literals
LongTemplate ==
    <<70, 69, 74, 80, 81, 80, 88, 73, 89, 83, 86, 84, 65, 83, 67,
      78, 65, 79, 69, 68, 81, 71, 74, 77, 81, 88, 79, 79, 68, 76,
      90, 70, 86, 89, 69, 89, 72, 76, 88, 81, 87, 72, 78, 68, 89>>

LongRules ==
    RuleTable(
    { <<65, 69, 77>>, <<65, 70, 78>>, <<65, 73, 73>>, <<65, 76, 87>>, <<65, 78, 66>>, <<65, 79, 73>>,
      <<65, 80, 89>>, <<65, 83, 70>>, <<66, 67, 88>>, <<66, 77, 76>>, <<66, 79, 77>>, <<66, 81, 82>>,
      <<66, 84, 88>>, <<66, 86, 78>>, <<66, 87, 89>>, <<66, 88, 87>>, <<66, 89, 86>>, <<66, 90, 65>>,
      <<67, 65, 67>>, <<67, 66, 65>>, <<67, 69, 66>>, <<67, 78, 89>>, <<67, 79, 66>>, <<67, 81, 79>>,
      <<67, 88, 72>>, <<67, 89, 88>>, <<68, 65, 71>>, <<68, 66, 73>>, <<68, 69, 88>>, <<68, 71, 77>>,
      <<68, 73, 66>>, <<68, 74, 86>>, <<68, 75, 76>>, <<68, 76, 69>>, <<68, 80, 69>>, <<68, 81, 84>>,
      <<68, 84, 75>>, <<68, 85, 82>>, <<68, 86, 67>>, <<68, 87, 78>>, <<68, 88, 71>>, <<68, 89, 66>>,
      <<69, 66, 84>>, <<69, 68, 78>>, <<69, 69, 69>>, <<69, 70, 76>>, <<69, 72, 76>>, <<69, 74, 68>>,
      <<69, 76, 81>>, <<69, 77, 87>>, <<69, 78, 74>>, <<69, 80, 80>>, <<69, 81, 90>>, <<69, 89, 69>>,
      <<69, 90, 66>>, <<70, 66, 85>>, <<70, 67, 66>>, <<70, 68, 80>>, <<70, 69, 84>>, <<70, 70, 68>>,
      <<70, 77, 69>>, <<70, 80, 71>>, <<70, 81, 70>>, <<70, 83, 77>>, <<70, 84, 85>>, <<70, 85, 86>>,
      <<70, 86, 77>>, <<70, 89, 73>>, <<71, 65, 89>>, <<71, 73, 86>>, <<71, 74, 73>>, <<71, 86, 82>>,
      <<72, 76, 83>>, <<72, 78, 83>>, <<72, 83, 87>>, <<72, 86, 74>>, <<72, 87, 84>>, <<73, 66, 69>>,
      <<73, 68, 80>>, <<73, 73, 86>>, <<73, 74, 83>>, <<73, 76, 90>>, <<73, 79, 82>>, <<73, 82, 79>>,
      <<73, 83, 73>>, <<73, 85, 68>>, <<73, 89, 85>>, <<74, 69, 69>>, <<74, 70, 90>>, <<74, 72, 69>>,
      <<74, 76, 77>>, <<74, 77, 76>>, <<74, 78, 90>>, <<74, 80, 69>>, <<74, 88, 81>>, <<75, 81, 82>>,
      <<75, 82, 65>>, <<75, 83, 88>>, <<75, 84, 77>>, <<75, 86, 83>>, <<76, 67, 76>>, <<76, 69, 67>>,
      <<76, 70, 71>>, <<76, 73, 82>>, <<76, 77, 88>>, <<76, 83, 73>>, <<76, 86, 87>>, <<76, 87, 84>>,
      <<76, 88, 86>>, <<76, 90, 69>>, <<77, 70, 76>>, <<77, 76, 75>>, <<77, 79, 72>>, <<77, 81, 70>>,
      <<77, 83, 74>>, <<77, 84, 82>>, <<77, 86, 87>>, <<77, 87, 76>>, <<77, 89, 84>>, <<78, 65, 82>>,
      <<78, 68, 84>>, <<78, 70, 73>>, <<78, 71, 83>>, <<78, 80, 79>>, <<78, 82, 89>>, <<78, 83, 68>>,
      <<78, 84, 80>>, <<78, 89, 87>>, <<79, 66, 79>>, <<79, 68, 70>>, <<79, 69, 85>>, <<79, 70, 74>>,
      <<79, 74, 88>>, <<79, 79, 66>>, <<79, 81, 69>>, <<79, 84, 69>>, <<79, 85, 84>>, <<80, 66, 81>>,
      <<80, 68, 86>>, <<80, 69, 75>>, <<80, 75, 87>>, <<80, 80, 68>>, <<80, 81, 75>>, <<80, 84, 90>>,
      <<80, 87, 75>>, <<80, 88, 80>>, <<81, 66, 80>>, <<81, 71, 78>>, <<81, 73, 86>>, <<81, 76, 68>>,
      <<81, 78, 87>>, <<81, 80, 87>>, <<81, 87, 66>>, <<81, 88, 89>>, <<81, 89, 78>>, <<82, 65, 67>>,
      <<82, 67, 69>>, <<82, 77, 70>>, <<82, 79, 81>>, <<82, 81, 77>>, <<82, 88, 77>>, <<83, 67, 70>>,
      <<83, 69, 85>>, <<83, 70, 69>>, <<83, 71, 85>>, <<83, 73, 75>>, <<83, 74, 81>>, <<83, 75, 84>>,
      <<83, 76, 73>>, <<83, 78, 74>>, <<83, 84, 87>>, <<83, 86, 75>>, <<84, 65, 68>>, <<84, 66, 78>>,
      <<84, 68, 89>>, <<84, 69, 80>>, <<84, 75, 78>>, <<84, 80, 86>>, <<84, 81, 66>>, <<84, 85, 87>>,
      <<84, 89, 83>>, <<85, 65, 89>>, <<85, 69, 65>>, <<85, 70, 86>>, <<85, 84, 84>>, <<85, 85, 83>>,
      <<85, 86, 78>>, <<85, 89, 70>>, <<86, 66, 70>>, <<86, 69, 88>>, <<86, 70, 78>>, <<86, 73, 86>>,
      <<86, 74, 73>>, <<86, 77, 82>>, <<86, 82, 73>>, <<86, 84, 66>>, <<86, 88, 82>>, <<86, 89, 77>>,
      <<87, 65, 71>>, <<87, 68, 68>>, <<87, 72, 87>>, <<87, 73, 81>>, <<87, 75, 89>>, <<87, 78, 80>>,
      <<87, 80, 65>>, <<87, 81, 86>>, <<87, 83, 86>>, <<87, 86, 67>>, <<87, 87, 68>>, <<88, 67, 70>>,
      <<88, 69, 81>>, <<88, 70, 90>>, <<88, 73, 87>>, <<88, 77, 90>>, <<88, 79, 67>>, <<88, 81, 67>>,
      <<88, 84, 79>>, <<88, 87, 77>>, <<88, 89, 76>>, <<89, 65, 81>>, <<89, 68, 83>>, <<89, 69, 86>>,
      <<89, 72, 74>>, <<89, 74, 69>>, <<89, 76, 65>>, <<89, 78, 89>>, <<89, 82, 90>>, <<89, 83, 76>>,
      <<89, 86, 72>>, <<89, 87, 88>>, <<89, 88, 74>>, <<89, 89, 78>>, <<90, 70, 85>>, <<90, 85, 85>> })

\* templates as parse_polymer(2) accepts them: 2 to 50 uppercase letters
SmallTemplates == {t \in SeqsUpTo(SmallAlphabet, MaxTemplateLen) : Len(t) >= 2}

\* caps under which generations of the small polymers and of the example
\* are cut in several chunks
SmallChunkCaps == {7, 9, 12, 24}

PolymerInputs ==
    (SmallTemplates \X SmallRuleTables \X (SmallChunkCaps \cup {DECODING_CHUNK_MAX_LEN}))
    \cup ({ExampleTemplate} \X {ExampleRules} \X (SmallChunkCaps \cup {DECODING_CHUNK_MAX_LEN}))
    \cup ({LongTemplate} \X {LongRules}
          \X {MATCH_MAX_SIZE, MATCH_MAX_SIZE + 1})

\* Polymer::read (main.rs lines 54-103)
InitPolymer ==
    /\ pc = "idle"
    /\ \E i \in PolymerInputs :
           /\ template = i[1] /\ insertion_rules = i[2] /\ decoding_chunk_max_len = i[3]
           /\ template_encoded = encode(i[1], <<>>)
    /\ new_template = <<>> /\ template_encoded_idx = 0
    /\ counts_by_element = <<>> /\ polymer_stats = NoStats /\ steps = 0
    /\ previous_chunk_last_element = None
    /\ decoded_buf = <<>> /\ grow_buf = <<>> /\ split = 0
    /\ CodecIdle /\ PlannerIdle

\* main.rs lines 115-118 and 180-183
NextChunkLen ==
    get_safe_decoding_chunk_len(Slice(template_encoded, template_encoded_idx, Len(template_encoded)),
                                decoding_chunk_max_len)

\* main.rs lines 125-126 and 194-195
NextChunk ==
    Slice(template_encoded, template_encoded_idx, template_encoded_idx + NextChunkLen)

polymerFixed == <<codecVars, decoding_chunk_max_len, insertion_rules, template, split>>

\* main.rs line 339: the step1 calls main makes before it calls stats
ExampleSteps == 10

\* the step1 calls followed: those of main up to its first stats for NNCB under
\* the program's chunk cap, MaxSteps otherwise
StepLimit ==
    IF /\ template = ExampleTemplate /\ insertion_rules = ExampleRules
       /\ decoding_chunk_max_len = DECODING_CHUNK_MAX_LEN
    THEN ExampleSteps ELSE MaxSteps

\* a step1 that keeps the carry of the call before it
Step1BeginKeepsCarry ==
    /\ pc = "idle" /\ steps < StepLimit
    /\ new_template' = <<>>
    /\ decoded_buf' = <<>> /\ encoded_buf' = <<>> /\ grow_buf' = <<>>
    /\ template_encoded_idx' = 0
    /\ pc' = "step1"
    /\ polymer_stats' = NoStats
    /\ UNCHANGED <<template_encoded, decoding_chunk_len, counts_by_element, steps,
                   previous_chunk_last_element, polymerFixed>>

\* main.rs lines 165-173
Step1Begin ==
    /\ pc = "idle" /\ steps < StepLimit
    /\ new_template' = <<>>
    /\ decoded_buf' = <<>> /\ encoded_buf' = <<>> /\ grow_buf' = <<>>
    /\ previous_chunk_last_element' = None
    /\ template_encoded_idx' = 0
    /\ pc' = "step1"
    /\ polymer_stats' = NoStats
    /\ UNCHANGED <<template_encoded, decoding_chunk_len, counts_by_element, steps, polymerFixed>>

\* main.rs lines 175-234: one run of the while loop
Step1Chunk ==
    /\ pc = "step1" /\ template_encoded_idx < Len(template_encoded)
    /\ LET decoded == decode(NextChunk, <<>>)
       IN /\ decoded.ok
          /\ decoding_chunk_len' = NextChunkLen
          /\ decoded_buf' = decoded.out
          /\ grow_buf' = grow_polymer_template(insertion_rules, decoded.out,
                                               previous_chunk_last_element, <<>>)
          /\ encoded_buf' = encode(grow_buf', <<>>)
          /\ new_template' = new_template \o encoded_buf'
          /\ previous_chunk_last_element' = LastElement(decoded_buf')
          /\ template_encoded_idx' = template_encoded_idx + NextChunkLen
    /\ UNCHANGED <<pc, template_encoded, counts_by_element, polymer_stats, steps, polymerFixed>>

\* main.rs lines 175-197: lz77::decode panics
Step1Panic ==
    /\ pc = "step1" /\ template_encoded_idx < Len(template_encoded)
    /\ ~decode(NextChunk, <<>>).ok
    /\ decoding_chunk_len' = NextChunkLen
    /\ pc' = "panic"
    /\ UNCHANGED <<template_encoded, new_template, template_encoded_idx, counts_by_element,
                   polymer_stats, steps, encoded_buf, previous_chunk_last_element, decoded_buf, grow_buf,
                   polymerFixed>>

\* main.rs lines 175, 236
Step1Return ==
    /\ pc = "step1" /\ template_encoded_idx >= Len(template_encoded)
    /\ template_encoded' = new_template
    /\ steps' = steps + 1
    /\ pc' = "idle"
    /\ UNCHANGED <<new_template, template_encoded_idx, counts_by_element, polymer_stats, plannerVars,
                   previous_chunk_last_element, decoded_buf, grow_buf, polymerFixed>>

\* main.rs lines 129-131
Tally(counts, buf) ==
    [e \in DOMAIN counts \cup {buf[i] : i \in DOMAIN buf} |->
        (IF e \in DOMAIN counts THEN counts[e] ELSE 0)
        + Cardinality({i \in DOMAIN buf : buf[i] = e})]

\* main.rs lines 105-110
CountBegin ==
    /\ pc = "idle"
    /\ counts_by_element' = <<>>
    /\ decoded_buf' = <<>>
    /\ template_encoded_idx' = 0
    /\ pc' = "count"
    /\ polymer_stats' = NoStats
    /\ UNCHANGED <<template_encoded, new_template, steps, plannerVars,
                   previous_chunk_last_element, grow_buf, polymerFixed>>

\* main.rs lines 112-135: one run of the while loop
CountChunk ==
    /\ pc = "count" /\ template_encoded_idx < Len(template_encoded)
    /\ LET decoded == decode(NextChunk, <<>>)
       IN /\ decoded.ok
          /\ decoding_chunk_len' = NextChunkLen
          /\ decoded_buf' = decoded.out
          /\ counts_by_element' = Tally(counts_by_element, decoded.out)
          /\ template_encoded_idx' = template_encoded_idx + NextChunkLen
    /\ UNCHANGED <<pc, template_encoded, new_template, polymer_stats, steps, encoded_buf,
                   previous_chunk_last_element, grow_buf, polymerFixed>>

\* main.rs lines 112-127: lz77::decode panics
CountPanic ==
    /\ pc = "count" /\ template_encoded_idx < Len(template_encoded)
    /\ ~decode(NextChunk, <<>>).ok
    /\ decoding_chunk_len' = NextChunkLen
    /\ pc' = "panic"
    /\ UNCHANGED <<template_encoded, new_template, template_encoded_idx, counts_by_element,
                   polymer_stats, steps, encoded_buf, previous_chunk_last_element, decoded_buf, grow_buf,
                   polymerFixed>>

\* main.rs lines 143-162: the PolymerStats stats may return for a tally.  Among
\* elements of equal count, max_by_key and min_by_key pick by the HashMap's
\* iteration order, which is not fixed.
StatsResults(element_counts) ==
    IF DOMAIN element_counts = {} THEN {NoStats}
    ELSE LET most == {e \in DOMAIN element_counts :
                         \A o \in DOMAIN element_counts : element_counts[o] <= element_counts[e]}
             least == {e \in DOMAIN element_counts :
                          \A o \in DOMAIN element_counts : element_counts[e] <= element_counts[o]}
         IN {[some |-> TRUE, most_common_element |-> a, most_common_count |-> element_counts[a],
              least_common_element |-> b, least_common_count |-> element_counts[b]] :
             a \in most, b \in least}

\* main.rs lines 325-329
most_and_least_common_element_difference(self) ==
    self.most_common_count - self.least_common_count

\* main.rs lines 112, 137: count_elements returns to stats; lines 143-162
CountReturn ==
    /\ pc = "count" /\ template_encoded_idx >= Len(template_encoded)
    /\ polymer_stats' \in StatsResults(counts_by_element)
    /\ pc' = "idle"
    /\ UNCHANGED <<template_encoded, new_template, template_encoded_idx, counts_by_element,
                   steps, plannerVars, previous_chunk_last_element, decoded_buf, grow_buf,
                   polymerFixed>>

NextPolymer ==
    \/ Step1Begin \/ Step1Chunk \/ Step1Panic \/ Step1Return
    \/ CountBegin \/ CountChunk \/ CountPanic \/ CountReturn

SpecPolymer == InitPolymer /\ [][NextPolymer]_vars

(***************************************************************************)
(* The chunked growth step's contract                                      *)
(***************************************************************************)
\* C2: when step1 or count_elements cuts the encoded generation (encode
\* outputs, concatenated) with get_safe_decoding_chunk_len, every Match
\* token of every chunk has an offset not above its position in the chunk:
\* decode never reads before the front of the slice it is given.
C2_ChunkSelfContained ==
    (pc \in {"step1", "count"} /\ template_encoded_idx < Len(template_encoded))
    => \A t \in TokenScan(NextChunk).matches :
           t + 2 < Len(NextChunk) => At(NextChunk, t + 1) <= t

\* the insertion pass applied once to the whole decoded previous generation
WholePass ==
    grow_polymer_template(insertion_rules, decode(template_encoded, <<>>).out, None, <<>>)

\* the symbols of the generation step1 has built so far
BuiltSoFar == decode(new_template, <<>>)

\* C5: for any template, rule table and chunk cap, step1 builds the next
\* generation chunk by chunk (each chunk it cuts is non-empty and decodes),
\* and the generation it has built decodes to the insertion pass applied
\* once to the whole decoded previous generation.
C5_ChunkEquivalence ==
    pc = "step1"
    => /\ BuiltSoFar.ok
       /\ BuiltSoFar.out = SubSeq(WholePass, 1, Len(BuiltSoFar.out))
       /\ template_encoded_idx < Len(template_encoded)
          => NextChunkLen >= 1 /\ decode(NextChunk, <<>>).ok
       /\ template_encoded_idx >= Len(template_encoded)
          => BuiltSoFar.out = WholePass

\* the generations step_polymer expects after 1, 2, 3 and 4 steps (main.rs
\* lines 481-496)
ExampleGenerations ==
    << <<78, 67, 78, 66, 67, 72, 66>>,
       <<78, 66, 67, 67, 78, 66, 66, 66, 67, 66, 72, 67, 66>>,
       <<78, 66, 66, 66, 67, 78, 67, 67, 78, 66, 66, 78, 66, 78, 66, 66, 67,
          72, 66, 72, 72, 0, 6, 4>>,
       <<78, 66, 66, 78, 66, 78, 66, 66, 67, 67, 78, 66, 67, 78, 0, 6, 4, 66,
          78, 66, 0, 3, 4, 66, 78, 66, 0, 3, 4, 67, 66, 72, 67, 66, 72, 72, 78,
          72, 67, 66, 66, 0, 12, 5>> >>

\* NCNBCHB
ExampleFirstGeneration == ExampleGenerations[1]

\* the polymer of step_polymer
IsExample == template = ExampleTemplate /\ insertion_rules = ExampleRules

\* every pair of symbols that can occur has a rule
AllPairsHaveRule ==
    LET symbols == {template[i] : i \in DOMAIN template}
                   \cup {insertion_rules[p] : p \in DOMAIN insertion_rules}
    IN \A a \in symbols, b \in symbols : <<a, b>> \in DOMAIN insertion_rules

\* the symbols of the current generation
Generation == decode(template_encoded, <<>>).out

\* step1 returns, having read a generation that fits in one chunk
SingleChunkStep ==
    /\ pc = "step1" /\ pc' = "idle"
    /\ Len(template_encoded) <= decoding_chunk_max_len

\* the generation a step1 call leaves, computed in one piece
GrownInOnePiece == encode(WholePass, <<>>)

\* what C9 states of every polymer: the single-chunk step and the length law
GrowthStepLaw ==
    /\ [][SingleChunkStep => template_encoded' = GrownInOnePiece]_vars
    /\ []((pc = "idle" /\ AllPairsHaveRule)
          => Len(Generation) = (Len(template) - 1) * 2 ^ steps + 1)

\* what C9 states of NNCB with the 16 example rules after one step, and
\* after each step under the program's own chunk cap
ExampleStepLaw ==
    []((pc = "idle" /\ IsExample)
       => /\ steps = 1 => Generation = ExampleFirstGeneration
          /\ (steps \in 1..4 /\ decoding_chunk_max_len = DECODING_CHUNK_MAX_LEN)
             => template_encoded = ExampleGenerations[steps])

ExampleAfterFourSteps == pc = "idle" /\ IsExample /\ steps = 4

\* C9 (as the code has it): a step1 call on a generation that fits in one
\* chunk leaves encode(insertion pass(decoded generation)); NNCB with the 16
\* example rules gives NCNBCHB after one step and 49 symbols after four;
\* when every pair has a rule, n steps on L symbols give (L-1)*2^n + 1.
C9_GrowthStep ==
    /\ GrowthStepLaw
    /\ ExampleStepLaw
    /\ [](ExampleAfterFourSteps => Len(Generation) = 49)

\* C9 (as stated): the same, with 97 symbols after four steps.
C9_AsStated ==
    /\ GrowthStepLaw
    /\ ExampleStepLaw
    /\ [](ExampleAfterFourSteps => Len(Generation) = 97)

\* four step1 calls on NNCB have returned under the program's chunk cap
C9_Witness ==
    /\ ExampleAfterFourSteps
    /\ decoding_chunk_max_len = DECODING_CHUNK_MAX_LEN
    /\ template_encoded = ExampleGenerations[4]

(***************************************************************************)
(* The alphabet                                                            *)
(***************************************************************************)
NonZero(buf) == \A i \in 1..Len(buf) : buf[i] # MATCH_ENCODING_MARKER

\* the template's symbols and the symbols the rules insert are non-zero
LegalPolymer ==
    /\ NonZero(template)
    /\ \A p \in DOMAIN insertion_rules : insertion_rules[p] # MATCH_ENCODING_MARKER

\* C19: starting from a template of non-zero symbols and rules that insert
\* non-zero symbols, after any number of step1 calls the generation decodes to
\* non-zero symbols only (and so does every chunk step1 and count_elements
\* decode), and no symbol step1 hands to encode is 0: encode, which writes a
\* symbol as a literal where it emits no Match, never writes the marker value
\* as a literal byte.
C19_Alphabet ==
    LegalPolymer
    => /\ pc = "idle" => NonZero(decode(template_encoded, <<>>).out)
       /\ pc \in {"step1", "count"} => NonZero(decoded_buf)
       /\ pc = "step1" => NonZero(grow_buf)

\* step1 has returned at least twice and has left a generation that holds
\* Match tokens and is longer than the chunk cap
C19_Witness ==
    /\ pc = "idle" /\ steps >= 2 /\ LegalPolymer
    /\ HasMarker(template_encoded)
    /\ Len(template_encoded) > decoding_chunk_max_len
    /\ Len(decode(template_encoded, <<>>).out) > Len(template_encoded)

(***************************************************************************)
(* Statistics                                                              *)
(***************************************************************************)
Occurrences(e, buf) == Cardinality({i \in DOMAIN buf : buf[i] = e})

RECURSIVE TallyTotal(_)
TallyTotal(counts) ==
    IF DOMAIN counts = {} THEN 0
    ELSE LET e == CHOOSE x \in DOMAIN counts : TRUE
         IN counts[e] + TallyTotal([o \in DOMAIN counts \ {e} |-> counts[o]])

\* count_elements has left its loop (main.rs line 112) and is about to return
CountLoopEnded == pc = "count" /\ template_encoded_idx >= Len(template_encoded)

\* each chunk count_elements cuts is non-empty and decodes: the call returns
CountAdvances ==
    (pc = "count" /\ template_encoded_idx < Len(template_encoded))
    => NextChunkLen >= 1 /\ decode(NextChunk, <<>>).ok

\* the tally is that of the fully decoded generation
CountsWholeGeneration ==
    CountLoopEnded
    => /\ \A e \in DOMAIN counts_by_element \cup {Generation[i] : i \in DOMAIN Generation} :
              /\ e \in DOMAIN counts_by_element
              /\ counts_by_element[e] = Occurrences(e, Generation)
       /\ TallyTotal(counts_by_element) = Len(Generation)

\* stats reports the largest and the smallest count of the tally
StatsReportsExtremes ==
    CountLoopEnded
    => \A r \in StatsResults(counts_by_element) :
           IF Len(Generation) = 0 THEN ~r.some
           ELSE /\ r.some
                /\ \A e \in DOMAIN counts_by_element :
                       /\ counts_by_element[e] <= r.most_common_count
                       /\ r.least_common_count <= counts_by_element[e]
                /\ counts_by_element[r.most_common_element] = r.most_common_count
                /\ counts_by_element[r.least_common_element] = r.least_common_count

\* NNCB with the example rules, after the 10 step1 calls of main
ExampleDifference ==
    (CountLoopEnded /\ IsExample /\ steps = ExampleSteps
       /\ decoding_chunk_max_len = DECODING_CHUNK_MAX_LEN)
    => \A r \in StatsResults(counts_by_element) :
           r.some /\ most_and_least_common_element_difference(r) = 1588

\* C20: count_elements, decoding chunk by chunk, returns for each symbol its
\* number of occurrences in the fully decoded generation (the counts sum to
\* the decoded length); stats reports the maximum and the minimum of these
\* counts; for NNCB with the example rules the difference after 10 step1
\* calls is 1588.
C20_Statistics ==
    /\ CountAdvances
    /\ CountsWholeGeneration
    /\ StatsReportsExtremes
    /\ ExampleDifference

(***************************************************************************)
(* The chunk cap and the generation step1 builds                           *)
(***************************************************************************)
\* step1 has left its loop (main.rs line 175) and is about to replace the generation
Step1LoopEnded == pc = "step1" /\ template_encoded_idx >= Len(template_encoded)

\* step1 has cut the generation it read in several chunks
SeveralChunks == Len(template_encoded) > decoding_chunk_max_len

InToken(buf, i) ==
    \E t \in TokenScan(buf).matches : t <= i /\ i < t + MATCH_ENCODING_LEN

\* the `offset` bytes in front of every Match token of buf are literals
OffsetsReachLiterals(buf) ==
    \A t \in TokenScan(buf).matches :
        /\ At(buf, t + 1) <= t
        /\ \A k \in 1..At(buf, t + 1) : ~InToken(buf, t - k)

\* C22: after every emitted Match, encode sets window_idx to the new
\* input_idx; so each Match token's offset is at most the number of literal
\* bytes emitted since the previous Match token (or since the start): the
\* `offset` bytes in front of a marker are all literals; and decode, which
\* copies them from the encoded input, reproduces the symbols the token stands
\* for: what it has appended is always the input up to there.
C22_WindowReset ==
    /\ [][(AtFindMatch /\ find_match(input, window_idx, input_idx).found)
          => window_idx' = input_idx']_vars
    /\ [](pc \in {"encode_loop", "encoded"} => OffsetsReachLiterals(output_buf))
    /\ []((Decoding \/ pc \in {"decode_panic", "decoded"})
          => /\ pc # "decode_panic"
             /\ Len(output) <= Len(input)
             /\ output = SubSeq(input, 1, Len(output)))

(***************************************************************************)
(* The chunk loops' progress                                               *)
(***************************************************************************)
\* step1 or count_elements is about to cut a chunk (main.rs lines 112, 175)
AtChunkCut == pc \in {"step1", "count"} /\ template_encoded_idx < Len(template_encoded)

\* C23: whenever the chunk cap is larger than MATCH_MAX_SIZE, every planner
\* call inside step1 and count_elements on a buffer longer than the cap
\* returns at least cap - MATCH_MAX_SIZE >= 1; template_encoded_idx strictly
\* increases each iteration without passing the end, and the loop ends with
\* template_encoded_idx equal to the buffer length: no iteration aborts it.
C23_StepTermination ==
    decoding_chunk_max_len > MATCH_MAX_SIZE
    => /\ (AtChunkCut /\ Len(template_encoded) - template_encoded_idx > decoding_chunk_max_len)
          => NextChunkLen >= decoding_chunk_max_len - MATCH_MAX_SIZE
       /\ AtChunkCut
          => /\ NextChunkLen >= 1
             /\ template_encoded_idx + NextChunkLen <= Len(template_encoded)
       /\ pc # "panic"

(***************************************************************************)
(* The generation read and the generation built                            *)
(***************************************************************************)
IsPrefix(a, b) == Len(a) <= Len(b) /\ a = SubSeq(b, 1, Len(a))

\* C24: while step1 iterates over chunks, template_encoded is unchanged and
\* what is built is appended to new_template, another buffer;
\* template_encoded is replaced only by new_template, when step1 returns
\* after the last chunk; and every step1 call starts with an empty
\* new_template and the carry previous_chunk_last_element = None.
C24_GenerationReplacement ==
    [][/\ (pc = "step1" /\ pc' # "idle")
          => /\ template_encoded' = template_encoded
             /\ IsPrefix(new_template, new_template')
       /\ template_encoded' # template_encoded
          => /\ pc = "step1" /\ pc' = "idle"
             /\ template_encoded_idx >= Len(template_encoded)
             /\ template_encoded' = new_template
       /\ (pc = "idle" /\ pc' = "step1")
          => /\ previous_chunk_last_element' = None
             /\ new_template' = <<>>
             /\ template_encoded' = template_encoded]_vars

\* a later step1 call is between two chunks: it has appended to new_template
\* and holds a carry, and template_encoded is still the generation it reads
C24_Witness ==
    /\ pc = "step1" /\ steps >= 1
    /\ 0 < template_encoded_idx /\ template_encoded_idx < Len(template_encoded)
    /\ new_template # <<>> /\ new_template # template_encoded
    /\ previous_chunk_last_element # None

(***************************************************************************)
(* decode on malformed streams                                             *)
(***************************************************************************)
\* the stream holds a Match token whose marker is followed by fewer than 2
\* bytes, or whose offset is larger than the token's position
Malformed(buf) ==
    \E t \in TokenScan(buf).matches :
        \/ t + 2 >= Len(buf)
        \/ At(buf, t + 1) > t

\* C25: decode never returns normally when the stream contains a Match token
\* whose offset is larger than the token's position in the stream or whose
\* marker is followed by fewer than 2 bytes: it aborts, with no result.
C25_FailFast ==
    Malformed(output_buf) => pc # "decoded"

\* decode has aborted at a token that reaches before the stream's start,
\* after it had decoded symbols
C25_Witness ==
    /\ pc = "decode_panic" /\ Len(output) > 0
    /\ decode_idx + 2 < Len(output_buf)
    /\ At(output_buf, decode_idx) = MATCH_ENCODING_MARKER
    /\ At(output_buf, decode_idx + 1) > decode_idx

(***************************************************************************)
(* Encoder outputs appended one after the other (main.rs lines 221-230:    *)
(* each chunk is encoded on its own and appended to new_template), then    *)
(* decoded in one piece.  input holds the symbols of both chunks and split *)
(* the length of the first; output_buf is the buffer appended to.          *)
(***************************************************************************)
MaxPartLen == 2

\* the sequences xyzwxyzw, which encode as four literals and a Match
Doubled == {q \o q : q \in [1..MATCH_MIN_SIZE -> SmallAlphabet]}

PartInputs ==
    SeqsUpTo(SmallAlphabet, MaxPartLen) \cup Doubled \cup TestVectors
    \cup {Far(MATCH_MAX_SIZE)}

InitAppend ==
    /\ pc = "append_first"
    /\ \E a \in PartInputs, b \in PartInputs : input = a \o b /\ split = Len(a)
    /\ output_buf = <<>> /\ window_idx = 0 /\ input_idx = 0
    /\ decode_idx = 0 /\ output = <<>>
    /\ decoding_chunk_max_len = 0
    /\ PlannerIdle /\ PolymerIdle
    /\ insertion_rules = <<>> /\ previous_chunk_last_element = None
    /\ decoded_buf = <<>> /\ grow_buf = <<>> /\ template = <<>>

\* main.rs lines 221-230 for the first chunk
AppendFirst ==
    /\ pc = "append_first"
    /\ output_buf' = encode(Slice(input, 0, split), output_buf)
    /\ pc' = "append_second"
    /\ UNCHANGED <<input, window_idx, input_idx, decode_idx, output, codecRest>>

\* main.rs lines 221-230 for the second chunk
AppendSecond ==
    /\ pc = "append_second"
    /\ output_buf' = encode(Slice(input, split, Len(input)), output_buf)
    /\ pc' = "encoded"
    /\ UNCHANGED <<input, window_idx, input_idx, decode_idx, output, codecRest>>

NextAppend ==
    \/ AppendFirst \/ AppendSecond
    \/ DecodeBegin \/ DecodeMatch \/ DecodeLiteral \/ DecodeReturn

SpecAppend == InitAppend /\ [][NextAppend]_vars

\* C26: for all sequences a and b of non-zero symbols,
\* decode(encode(a) ++ encode(b)) returns and equals a ++ b.
C26_Concatenation ==
    /\ pc = "encoded"
       => output_buf = encode(Slice(input, 0, split), <<>>)
                       \o encode(Slice(input, split, Len(input)), <<>>)
    /\ pc # "decode_panic"
    /\ pc = "decoded" => output = input

(***************************************************************************)
(* The planner's result against the buffer and the cap                     *)
(***************************************************************************)
\* C27: whenever get_safe_decoding_chunk_len(encoded, max_len) returns, its
\* result is at most min(encoded.len(), max_len): the chunk slice lies
\* within the buffer.
C27_ResultBound ==
    pc = "planned"
    => /\ decoding_chunk_len <= Min2(Len(encoded_buf), decoding_chunk_max_len)
       /\ Slice(encoded_buf, 0, decoding_chunk_len)
          = SubSeq(encoded_buf, 1, decoding_chunk_len)

\* a buffer longer than the cap whose window ends with a token: the result
\* is the cap itself
C27_Witness ==
    /\ pc = "planned" /\ Len(encoded_buf) > decoding_chunk_max_len
    /\ decoding_chunk_len = decoding_chunk_max_len
    /\ At(encoded_buf, decoding_chunk_len - MATCH_ENCODING_LEN) = MATCH_ENCODING_MARKER

(***************************************************************************)
(* The size of encode's output                                             *)
(***************************************************************************)
\* C28: for every input of non-zero bytes, encode appends at most as many
\* bytes to output_buf as the input has symbols.
C28_NoExpansion == pc = "encoded" => Len(output_buf) <= Len(input)

(***************************************************************************)
(* Termination of encode, by a variant: a natural number that every        *)
(* iteration of the main loop makes smaller.                               *)
(***************************************************************************)
\* the symbols left, counted twice, and one more while the window is not empty
Variant == 2 * (Len(input) - input_idx) + (IF window_idx < input_idx THEN 1 ELSE 0)

EncodeIteration == EncodeMatch \/ EncodeLiteral

\* the highest index find_match reads at the current position: the end of
\* the pattern, or the last symbol the inner loop may compare
HighestIndexRead == input_idx + MATCH_MIN_SIZE - 1 + ExtendBound(input, input_idx)

\* a Match whose length is MATCH_MAX_SIZE has just been pushed: its length
\* byte is 0 and input_idx has not moved
AfterFullMatch ==
    /\ pc = "encode_loop" /\ input_idx >= MATCH_MIN_SIZE
    /\ Len(output_buf) >= MATCH_ENCODING_LEN
    /\ At(output_buf, Len(output_buf) - MATCH_ENCODING_LEN) = MATCH_ENCODING_MARKER
    /\ At(output_buf, Len(output_buf) - 1) = 0
    /\ window_idx = input_idx
    /\ ExtendMatch(input, input_idx, input_idx - MATCH_MIN_SIZE) = MATCH_MAX_SIZE

\* C29: encode terminates on every input: every iteration of its main loop
\* makes the variant smaller and leaves it a natural number.  An iteration
\* that pushes a literal moves input_idx by one; one that pushes a Match
\* moves it forward or, when it does not (a Match of MATCH_MAX_SIZE
\* symbols), is followed by an iteration that pushes a literal.  Every
\* index encode and find_match read lies inside the input.
C29_Termination ==
    /\ [][EncodeIteration => (0 <= Variant' /\ Variant' < Variant)]_vars
    /\ [][/\ EncodeLiteral => input_idx' = input_idx + 1
          /\ EncodeMatch
             => \/ input_idx' > input_idx
                \/ /\ input_idx' = input_idx
                   /\ EncodeLoopGuard(input, input_idx')
                   /\ ~find_match(input, window_idx', input_idx').found]_vars
    /\ [](pc \in {"encode_loop", "encoded"}
          => /\ 0 <= window_idx /\ window_idx <= input_idx /\ input_idx <= Len(input))
    /\ [](AtFindMatch
          => /\ ExtendBound(input, input_idx) >= 0
             /\ HighestIndexRead < Len(input))

\* the iteration after a Match of MATCH_MAX_SIZE symbols: input_idx where
\* the Match left it, the window empty
C29_Witness == AfterFullMatch /\ EncodeLoopGuard(input, input_idx)

====
